---------------------------- MODULE Spec2Model ----------------------------
(***************************************************************************)
(* The icon registry of client/src/icons/index.ts: a module made only of   *)
(* re-export statements  export { default as <Name> } from './<Module>'.   *)
(* The model follows the life of that module record: its export entries    *)
(* are linked one statement at a time, the definition modules it requests  *)
(* are evaluated in statement order, and from then on consumers resolve    *)
(* exported names to the components bound to them.                         *)
(***************************************************************************)
EXTENDS Naturals, Sequences, FiniteSets, TLC

(* The statements of index.ts in file order, one triple per line:          *)
(* <<exported name, imported name, module specifier without "./">>.        *)
ExportStatements ==
   <<
      <<"ArrowDown", "default", "ArrowDown">>,
      <<"ArrowLeft", "default", "ArrowLeft">>,
      <<"ArrowPushBottom", "default", "ArrowPushBottom">>,
      <<"ArrowPushLeft", "default", "ArrowPushLeft">>,
      <<"ArrowPushRight", "default", "ArrowPushRight">>,
      <<"ArrowBoxOut", "default", "ArrowBoxOut">>,
      <<"ArrowPushTop", "default", "ArrowPushTop">>,
      <<"ArrowRevert", "default", "ArrowRevert">>,
      <<"ArrowRight", "default", "ArrowRight">>,
      <<"ArrowUp", "default", "ArrowUp">>,
      <<"Branch", "default", "Branch">>,
      <<"Bug", "default", "Bug">>,
      <<"ChatBubble", "default", "ChatBubble">>,
      <<"CheckIcon", "default", "CheckIcon">>,
      <<"ChevronDoubleIntersected", "default", "ChevronDoubleIntersected">>,
      <<"ChevronDown", "default", "ChevronDown">>,
      <<"ChevronDownFilled", "default", "ChevronDownFilled">>,
      <<"ChevronFoldIn", "default", "ChevronFoldIn">>,
      <<"ChevronFoldOut", "default", "ChevronFoldOut">>,
      <<"ChevronLeft", "default", "ChevronLeft">>,
      <<"ChevronLeftFilled", "default", "ChevronLeftFilled">>,
      <<"ChevronRight", "default", "ChevronRight">>,
      <<"ChevronRightFilled", "default", "ChevronRightFilled">>,
      <<"ChevronUp", "default", "ChevronUp">>,
      <<"ChevronUpFilled", "default", "ChevronUpFilled">>,
      <<"ClearIcon", "default", "ClearIcon">>,
      <<"Clipboard", "default", "Clipboard">>,
      <<"CloseSign", "default", "CloseSign">>,
      <<"Codebase", "default", "Codebase">>,
      <<"CodeLanguage", "default", "CodeLanguage">>,
      <<"Cog", "default", "Cog">>,
      <<"Collections", "default", "Collections">>,
      <<"DoorLeft", "default", "DoorLeft">>,
      <<"DoorRight", "default", "DoorRight">>,
      <<"DoubleChevronLeft", "default", "DoubleChevronLeft">>,
      <<"DoubleChevronRight", "default", "DoubleChevronRight">>,
      <<"DragVertical", "default", "DragVertical">>,
      <<"Filter", "default", "Filter">>,
      <<"FloppyDisk", "default", "FloppyDisk">>,
      <<"FolderFilled", "default", "FolderFilled">>,
      <<"Letter", "default", "Letter">>,
      <<"MagnifyTool", "default", "MagnifyTool">>,
      <<"MailIcon", "default", "MailIcon">>,
      <<"Modal", "default", "Modal">>,
      <<"PenUnderline", "default", "PenUnderline">>,
      <<"Person", "default", "Person">>,
      <<"Persons", "default", "Persons">>,
      <<"PlusSignInBubble", "default", "PlusSignInBubble">>,
      <<"PowerPlug", "default", "PowerPlug">>,
      <<"Repository", "default", "Repository">>,
      <<"ReturnKey", "default", "ReturnKey">>,
      <<"Sidebar", "default", "Sidebar">>,
      <<"Star", "default", "Star">>,
      <<"Tab", "default", "Tab">>,
      <<"Thunder", "default", "Thunder">>,
      <<"TrashCan", "default", "TrashCan">>,
      <<"Version", "default", "Version">>,
      <<"LogoSmall", "default", "LogoSmall">>,
      <<"LogoFull", "default", "LogoFull">>,
      <<"GitHubLogo", "default", "GitHubIcon">>,
      <<"List", "default", "List">>,
      <<"Eye", "default", "Eye">>,
      <<"Commit", "default", "Commit">>,
      <<"Intelisence", "default", "Intelisence">>,
      <<"Collapsed", "default", "Collapsed">>,
      <<"Expanded", "default", "Expanded">>,
      <<"TooltipTailBottom", "default", "TooltipTailBottom">>,
      <<"TooltipTailLeft", "default", "TooltipTailLeft">>,
      <<"TooltipTailTop", "default", "TooltipTailTop">>,
      <<"TooltipTailRight", "default", "TooltipTailRight">>,
      <<"Papers", "default", "Papers">>,
      <<"Globe", "default", "Globe">>,
      <<"Checkmark", "default", "Checkmark">>,
      <<"TuneControls", "default", "TuneControls">>,
      <<"Chronometer", "default", "Chronometer">>,
      <<"MultiShare", "default", "MultiShare">>,
      <<"CursorSelection", "default", "CursorSelection">>,
      <<"RegexIcon", "default", "Regex">>,
      <<"MoreHorizontal", "default", "MoreHorizontal">>,
      <<"ThumbsUp", "default", "ThumbsUp">>,
      <<"ThumbsDown", "default", "ThumbsDown">>,
      <<"NaturalLanguage", "default", "NaturalLanguage">>,
      <<"ArrowRotate", "default", "ArrowRotate">>,
      <<"PointClick", "default", "PointClick">>,
      <<"Magazine", "default", "Magazine">>,
      <<"QuillIcon", "default", "Quill">>,
      <<"SendIcon", "default", "Send">>,
      <<"DiscordLogo", "default", "DiscordLogo">>,
      <<"Home", "default", "Home">>,
      <<"Conversation", "default", "Conversation">>,
      <<"Sparkle", "default", "Sparkle">>,
      <<"LiteLoader", "default", "LiteLoader">>,
      <<"Globe2", "default", "Globe2">>,
      <<"Lock", "default", "Lock">>,
      <<"LockFilled", "default", "LockFilled">>,
      <<"HardDrive", "default", "HardDrive">>
   >>

(* Model bounds: the number of consumers reading the registry and the      *)
(* number of resolutions performed in one run.                             *)
NumReaders == 2
MaxResolves == 3

Readers == 1..NumReaders

(* An export entry of the module record: ExportName, ImportName and        *)
(* ModuleRequest of one re-export statement.                               *)
Entry(t) == [exported |-> t[1], imported |-> t[2], from |-> t[3]]

EntriesOf(src) == [i \in 1..Len(src) |-> Entry(src[i])]

(* Line 2 exporting the name of line 1 a second time.                      *)
StatementsDuplicateName ==
   EntriesOf([ExportStatements EXCEPT ![2] = <<"ArrowDown", "default", "ArrowLeft">>])

(* Line 2 re-exporting the module of line 1 under its own name.            *)
StatementsSharedModule ==
   EntriesOf([ExportStatements EXCEPT ![2] = <<"ArrowLeft", "default", "ArrowDown">>])

(* Line 1 written  export { ArrowDown } from './ArrowDown'  (a named       *)
(* import where the definition module only has a default).                 *)
StatementsNamedImport ==
   EntriesOf([ExportStatements EXCEPT ![1] = <<"ArrowDown", "ArrowDown", "ArrowDown">>])

(* Line 79 written  export { default as Regex } from './Regex'  : the base *)
(* name of the aliased module of line 78 becomes an exported name.         *)
StatementsShadowedAlias ==
   EntriesOf([ExportStatements EXCEPT ![79] = <<"Regex", "default", "Regex">>])

(* The export entries of index.ts, in file order.                          *)
Statements == EntriesOf(ExportStatements)

NumStatements == Len(Statements)

(* The names the modelled consumers write in their imports: those of the   *)
(* first and the last statement, the exported name of every aliased        *)
(* statement, and the module base name of every aliased statement (a name  *)
(* one could expect but that is not exported).                             *)
AliasedLines == {i \in 1..NumStatements : Statements[i].exported # Statements[i].from}

ImportedNames ==
   {Statements[i].exported : i \in {1, NumStatements} \cup AliasedLines}
      \cup {Statements[i].from : i \in AliasedLines}

(* Values a binding can hold.  A component is identified by the module     *)
(* that defines it and by the instance of it (0: the module's own value).  *)
Component(m) == [kind |-> "component", module |-> m, instance |-> 0]
Absent == [kind |-> "absent", module |-> "", instance |-> 0]
Uninitialized == [kind |-> "uninitialized", module |-> "", instance |-> 0]

(* The exports of a definition module: exactly one, its default component. *)
DefinitionExports(m) == "default" :> Component(m)

(* What a consumer obtains by importing definition module m directly.      *)
DirectImport(m) == DefinitionExports(m)["default"]

NoBinding == [name |-> "", module |-> "", imported |-> ""]
NoResult == [name |-> "", ref |-> Absent]

VARIABLES
   status,      \* "linking", "evaluating" or "evaluated": the registry module
   pc,          \* the statement the current phase handles next
   registry,    \* the resolved export bindings [name, module, imported]
   evaluated,   \* the definition modules that have been evaluated
   held,        \* per reader, the last name resolved and the reference got
   calls,       \* the number of resolutions performed
   first        \* history: per name resolved so far, the first reference got

vars == <<status, pc, registry, evaluated, held, calls, first>>

ExportedNames == {b.name : b \in registry}

(* ResolveExport of the registry module: the binding exported under name   *)
(* n, or none when n is not an exported name.                              *)
ResolveExportDynamic(n) ==
   IF \E b \in registry : b.name = n
      THEN CHOOSE b \in registry : b.name = n
      ELSE [name |-> n, module |-> n, imported |-> "default"]

ResolveExport(n) ==
   IF \E b \in registry : b.name = n
      THEN CHOOSE b \in registry : b.name = n
      ELSE NoBinding

(* The value of a binding: the imported name of the target module's        *)
(* environment, itself, once that module has been evaluated.               *)
GetBindingValueWrapped(b) ==
   IF b.module \notin evaluated THEN Uninitialized
   ELSE IF b.imported \notin DOMAIN DefinitionExports(b.module) THEN Absent
   ELSE [DefinitionExports(b.module)[b.imported] EXCEPT !.kind = "wrapper"]

GetBindingValueFresh(b) ==
   IF b.module \notin evaluated THEN Uninitialized
   ELSE IF b.imported \notin DOMAIN DefinitionExports(b.module) THEN Absent
   ELSE [DefinitionExports(b.module)[b.imported] EXCEPT !.instance = calls]

GetBindingValue(b) ==
   IF b.module \notin evaluated THEN Uninitialized
   ELSE IF b.imported \notin DOMAIN DefinitionExports(b.module) THEN Absent
   ELSE DefinitionExports(b.module)[b.imported]

(* The registry as consumers see it: each exported name with its value.    *)
Bindings == {[name |-> b.name, ref |-> GetBindingValue(b)] : b \in registry}

Init ==
   /\ status = "linking"
   /\ pc = 1
   /\ registry = {}
   /\ evaluated = {}
   /\ held = [r \in Readers |-> NoResult]
   /\ calls = 0
   /\ first = <<>>

(* Linking: statement pc adds the binding of its exported name.            *)
LinkExport ==
   /\ status = "linking"
   /\ registry' = registry \cup
         {[name |-> Statements[pc].exported,
           module |-> Statements[pc].from,
           imported |-> Statements[pc].imported]}
   /\ IF pc = NumStatements
         THEN status' = "evaluating" /\ pc' = 1
         ELSE status' = status /\ pc' = pc + 1
   /\ UNCHANGED <<evaluated, held, calls, first>>

(* Evaluation: the module requested by statement pc is evaluated; the      *)
(* registry module itself has no body to run after the last one.           *)
EvaluateDefinition ==
   /\ status = "evaluating"
   /\ evaluated' = evaluated \cup {Statements[pc].from}
   /\ IF pc = NumStatements
         THEN status' = "evaluated" /\ pc' = pc
         ELSE status' = status /\ pc' = pc + 1
   /\ UNCHANGED <<registry, held, calls, first>>

(* The history of first resolutions after name n resolved to ref.         *)
Recorded(n, ref) == IF n \in DOMAIN first THEN first ELSE (n :> ref) @@ first

(* A resolve that hands the binding over and drops it from the registry.   *)
ResolveDestructive(r, n) ==
   /\ status = "evaluated"
   /\ calls < MaxResolves
   /\ ResolveExport(n) # NoBinding
   /\ held' = [held EXCEPT ![r] =
                  [name |-> n, ref |-> GetBindingValue(ResolveExport(n))]]
   /\ calls' = calls + 1
   /\ first' = Recorded(n, GetBindingValue(ResolveExport(n)))
   /\ registry' = registry \ {ResolveExport(n)}
   /\ UNCHANGED <<status, pc, evaluated>>

(* A resolve that re-points the name at the module of the first statement. *)
ResolveRebinding(r, n) ==
   /\ status = "evaluated"
   /\ calls < MaxResolves
   /\ ResolveExport(n) # NoBinding
   /\ held' = [held EXCEPT ![r] =
                  [name |-> n, ref |-> GetBindingValue(ResolveExport(n))]]
   /\ calls' = calls + 1
   /\ first' = Recorded(n, GetBindingValue(ResolveExport(n)))
   /\ registry' = (registry \ {ResolveExport(n)}) \cup
         {[ResolveExport(n) EXCEPT !.module = Statements[1].from]}
   /\ UNCHANGED <<status, pc, evaluated>>

(* A resolve that takes the component out of its module's environment, so  *)
(* that the next reader of the name finds it uninitialized.                *)
ResolveMoving(r, n) ==
   /\ status = "evaluated"
   /\ calls < MaxResolves
   /\ ResolveExport(n) # NoBinding
   /\ held' = [held EXCEPT ![r] =
                  [name |-> n, ref |-> GetBindingValue(ResolveExport(n))]]
   /\ calls' = calls + 1
   /\ first' = Recorded(n, GetBindingValue(ResolveExport(n)))
   /\ evaluated' = evaluated \ {ResolveExport(n).module}
   /\ UNCHANGED <<status, pc, registry>>

(* resolve(n) by reader r: a read of the binding exported under n.  A name *)
(* that is not exported has no binding to read: the import of it does not  *)
(* link, so there is no step.                                              *)
Resolve(r, n) ==
   /\ status = "evaluated"
   /\ calls < MaxResolves
   /\ ResolveExport(n) # NoBinding
   /\ held' = [held EXCEPT ![r] =
                  [name |-> n, ref |-> GetBindingValue(ResolveExport(n))]]
   /\ calls' = calls + 1
   /\ first' = Recorded(n, GetBindingValue(ResolveExport(n)))
   /\ UNCHANGED <<status, pc, registry, evaluated>>

Next ==
   \/ LinkExport
   \/ EvaluateDefinition
   \/ \E r \in Readers, n \in ImportedNames : Resolve(r, n)

Spec == Init /\ [][Next]_vars

-----------------------------------------------------------------------------
(* Definitions shared by the properties.                                   *)

(* The number of statements linked so far.                                 *)
Linked == IF status = "linking" THEN pc - 1 ELSE NumStatements

(* The definition modules index.ts requests.                               *)
RequestedModules == {Statements[i].from : i \in 1..NumStatements}

(* The bindings whose exported name is not the base name of their module.  *)
Aliased == {b \in registry : b.name # b.module}

(* The bindings as established by loading index.ts: every exported name    *)
(* with the default of the module its statement names.                     *)
LoadedBindings ==
   {[name |-> Statements[i].exported, ref |-> DirectImport(Statements[i].from)] :
       i \in 1..NumStatements}

Holding(r) == held[r] # NoResult

-----------------------------------------------------------------------------
(* C1: the exported names contain no duplicates: every statement linked so *)
(* far contributed a binding of its own and no two bindings share a name,  *)
(* so the registry is a function from names to bindings.                   *)
C1_UniqueExportedNames ==
   /\ Cardinality(registry) = Linked
   /\ Cardinality(ExportedNames) = Cardinality(registry)

(* All statements are linked and the registry holds one name for each.     *)
C1_Witness ==
   /\ status = "evaluated"
   /\ Cardinality(ExportedNames) = NumStatements

(* C2: exported names and definition modules correspond one-to-one and     *)
(* onto: no two names re-export the same module, every requested module is *)
(* exported under exactly one name, and there are as many exported names   *)
(* as distinct requested modules.                                          *)
C2_NamesAndModulesBijective ==
   /\ \A b1, b2 \in registry : b1.module = b2.module => b1.name = b2.name
   /\ status # "linking" =>
         /\ {b.module : b \in registry} = RequestedModules
         /\ \A m \in RequestedModules :
               Cardinality({b \in registry : b.module = m}) = 1
         /\ Cardinality(ExportedNames) = Cardinality(RequestedModules)

(* Linking is over and every requested module has its binding.             *)
C2_Witness ==
   /\ status = "evaluating"
   /\ Cardinality({b.module : b \in registry}) = Cardinality(RequestedModules)

(* C3: resolve(N) returns exactly the default of the definition module the *)
(* registry associates with N, the reference a direct import of that       *)
(* module gives (resolve("ArrowDown") is the default of './ArrowDown'):    *)
(* never a wrapper, a copy or another component.                           *)
C3_ResolveIsDirectImport ==
   /\ \A r \in Readers : Holding(r) =>
         \E i \in 1..NumStatements :
            /\ Statements[i].exported = held[r].name
            /\ held[r].ref = DirectImport(Statements[i].from)
   /\ \A r \in Readers :
         held[r].name = "ArrowDown" => held[r].ref = DirectImport("ArrowDown")
   /\ status = "evaluated" =>
         \A b \in registry : GetBindingValue(b) = DirectImport(b.module)

(* A reader has resolved "ArrowDown" and another an aliased name.          *)
C3_Witness ==
   \E r1, r2 \in Readers :
      /\ held[r1].name = "ArrowDown"
      /\ held[r2].name = "GitHubLogo"
      /\ held[r2].ref = DirectImport("GitHubIcon")

(* C4: after initialization every resolve returns a present component: no  *)
(* published binding is absent or uninitialized, and no reader was handed  *)
(* such a value.                                                           *)
C4_ResolvedComponentPresent ==
   /\ \A r \in Readers : Holding(r) => held[r].ref.kind = "component"
   /\ status = "evaluated" =>
         \A b \in registry : GetBindingValue(b).kind = "component"

(* Every reader holds a component after the resolutions ran out.           *)
C4_Witness ==
   /\ calls = MaxResolves
   /\ \A r \in Readers : Holding(r) /\ held[r].ref.kind = "component"

(* C5: referential stability: whatever resolutions happened in between, on *)
(* the same or on other names and by any reader, every resolution of N     *)
(* returns the reference the first resolution of N returned.               *)
C5_ReferentiallyStable ==
   /\ \A r \in Readers : Holding(r) =>
         /\ held[r].name \in DOMAIN first
         /\ held[r].ref = first[held[r].name]
   /\ \A r1, r2 \in Readers :
         (Holding(r1) /\ held[r1].name = held[r2].name) =>
            held[r1].ref = held[r2].ref

(* The first name resolved, then another name, then the first again.       *)
C5_Witness ==
   /\ calls = 3
   /\ Cardinality(DOMAIN first) = 2
   /\ \E r1, r2 \in Readers :
         /\ r1 # r2
         /\ Holding(r1) /\ Holding(r2)
         /\ held[r1].name = held[r2].name

(* C6: the registry is immutable after initialization: from the state in   *)
(* which the module is evaluated on, no step changes the set of bindings   *)
(* (names, target modules, values) or leaves the evaluated state.          *)
C6_ImmutableAfterInitialization ==
   [][status = "evaluated" =>
         /\ status' = "evaluated"
         /\ registry' = registry
         /\ Bindings' = Bindings]_vars

(* Resolutions ran to the bound and the registry is what loading built.    *)
C6_Witness ==
   /\ status = "evaluated"
   /\ calls = MaxResolves
   /\ Bindings = LoadedBindings

(* C7: resolve has no side effects: a resolve step changes nothing of the  *)
(* registry module (status, position, bindings, evaluated modules) and no  *)
(* other reader's result, and the reference it returns is the one the      *)
(* bindings give for the name, whatever was resolved before.               *)
C7_ResolveHasNoSideEffects ==
   [][calls' # calls =>
         /\ <<status', pc', registry', evaluated'>> = <<status, pc, registry, evaluated>>
         /\ \E r \in Readers :
               /\ \A q \in Readers \ {r} : held'[q] = held[q]
               /\ [name |-> held'[r].name, ref |-> held'[r].ref] \in Bindings
               /\ [name |-> held'[r].name, ref |-> held'[r].ref] \in Bindings']_vars

(* One resolve has been made, by exactly one reader.                       *)
C7_Witness ==
   /\ calls = 1
   /\ Cardinality({r \in Readers : Holding(r)}) = 1
   /\ Cardinality(registry) = NumStatements

C9_ConcurrentReadersAgree ==
   /\ \A r \in Readers : Holding(r) =>
         [name |-> held[r].name, ref |-> held[r].ref] \in LoadedBindings
   /\ status = "evaluated" => Bindings = LoadedBindings

(* Two readers hold results at once, one of them resolved twice.           *)
C9_Witness ==
   /\ calls = 3
   /\ \E r1, r2 \in Readers :
         /\ r1 # r2
         /\ held[r1].name = "RegexIcon"
         /\ held[r2].name = "RegexIcon"

(* The aliased statements of index.ts: lines 60, 78, 86 and 87.            *)
FourAliases ==
   {<<"GitHubLogo", "GitHubIcon">>, <<"RegexIcon", "Regex">>,
    <<"QuillIcon", "Quill">>, <<"SendIcon", "Send">>}

(* C10: every exported name is the base name of its definition module but  *)
(* for exactly four aliases, GitHubLogo, RegexIcon, QuillIcon and SendIcon,*)
(* and the base name of an aliased module is not itself exported.          *)
C10_ExactlyFourAliases ==
   /\ {<<b.name, b.module>> : b \in Aliased} \subseteq FourAliases
   /\ status # "linking" => {<<b.name, b.module>> : b \in Aliased} = FourAliases
   /\ \A b \in Aliased : b.module \notin ExportedNames

(* The module is loaded and four of its bindings are aliases.              *)
C10_Witness ==
   /\ status = "evaluated"
   /\ Cardinality(Aliased) = 4
   /\ Cardinality(registry \ Aliased) = NumStatements - 4

=============================================================================
